---- MODULE Spec2Model ----
(***************************************************************************)
(* Authentication / session core of the todo backend (hw_13_env):          *)
(* services/auth.py (Auth), routes/auth.py (signup, login, refresh_token,  *)
(* confirmed_email, request_email), repository/users.py and the user       *)
(* table of entity/models.py.                                              *)
(*                                                                         *)
(* Time is counted in ticks of half a second: datetime.utcnow() has        *)
(* sub-second resolution, while the JWT library stores iat/exp and reads   *)
(* the clock in whole seconds (timegm(utctimetuple())).                    *)
(***************************************************************************)
EXTENDS Integers, Sequences, FiniteSets, TLC

-----------------------------------------------------------------------------
(* Bounds of the model *)

\* clock advances in one behaviour of Spec
MaxAdvances == 1
\* requests started in one behaviour of Spec
MaxCalls == 3
\* clock advances in one behaviour of SpecToken
MaxTokAdvances == 2
MaxTodos == 2

-----------------------------------------------------------------------------
(* Program constants *)

TicksPerSec == 2
\* timedelta(minutes=15), timedelta(days=7), timedelta(days=1) in seconds
ACCESS_DEFAULT_SECONDS == 15 * 60
REFRESH_DEFAULT_SECONDS == 7 * 24 * 60 * 60
EMAIL_SECONDS == 24 * 60 * 60

HTTP_200_OK == 200
HTTP_400_BAD_REQUEST == 400
HTTP_401_UNAUTHORIZED == 401
HTTP_403_FORBIDDEN == 403
HTTP_404_NOT_FOUND == 404
HTTP_409_CONFLICT == 409
HTTP_422_UNPROCESSABLE_ENTITY == 422
HTTP_500_INTERNAL_SERVER_ERROR == 500

\* attributes of class Auth (services/auth.py): there is no SECRET_KEY
AuthAttrs ==
    {"pwd_context", "verify_password", "get_password_hash", "oauth2_scheme",
     "create_access_token", "create_refresh_token", "decode_refresh_token",
     "get_current_user", "create_email_token", "get_email_from_token"}

\* functions of module repository/users.py: there is no confirmed_email
RepositoryUsersAttrs ==
    {"get_user_by_email", "create_user", "update_token", "confirm_email"}

Role == {"admin", "moderator", "user"}

Emails == {"tester@example.com", "alice@example.com"}
Passwords == {"0123456", "other"}
Salts == {1}

-----------------------------------------------------------------------------
(* Clock *)

\* whole seconds of a clock reading: timegm(datetime.utcnow().utctimetuple())
Sec(t) == t \div TicksPerSec

-----------------------------------------------------------------------------
(* Tokens.  A token string is determined by its claim set and signature:   *)
(* HS256 is deterministic, so equal claims give equal strings.             *)

\* refresh_token column value NULL / Python None
NoToken ==
    [sub |-> "", scope |-> "", iat |-> 0, exp |-> 0, test |-> FALSE, sig |-> "none"]

\* a bearer string that is not a JWT at all
Malformed ==
    [sub |-> "", scope |-> "", iat |-> 0, exp |-> 0, test |-> FALSE, sig |-> "malformed"]

\* a token whose signature no longer matches its claims
Tamper(tok) == [tok EXCEPT !.sig = "bad"]

\* optional expires_delta argument: <<>> is None, <<n>> is n seconds
NoDelta == <<>>
Truthy(delta) == delta # <<>> /\ delta[1] # 0

\* jwt.encode: datetime claims are converted to whole seconds, then signed
jwt_encode(sub, test, scope, iatTick, expTick) ==
    [sub |-> sub, scope |-> scope, iat |-> Sec(iatTick), exp |-> Sec(expTick),
     test |-> test, sig |-> "ok"]

create_access_token(data, delta, t) ==
    LET expire == IF Truthy(delta)
                  THEN t + delta[1] * TicksPerSec
                  ELSE t + ACCESS_DEFAULT_SECONDS * TicksPerSec
    IN jwt_encode(data.sub, data.test, "access_token", t, expire)

\* variant: the token is issued with the access scope
create_refresh_token_access_scope(data, delta, t) ==
    LET expire == IF Truthy(delta)
                  THEN t + delta[1] * TicksPerSec
                  ELSE t + REFRESH_DEFAULT_SECONDS * TicksPerSec
    IN jwt_encode(data.sub, data.test, "access_token", t, expire)

create_refresh_token(data, delta, t) ==
    LET expire == IF Truthy(delta)
                  THEN t + delta[1] * TicksPerSec
                  ELSE t + REFRESH_DEFAULT_SECONDS * TicksPerSec
    IN jwt_encode(data.sub, data.test, "refresh_token", t, expire)

\* no scope claim is written into an email token
create_email_token(data, t) ==
    jwt_encode(data.sub, data.test, "none", t, t + EMAIL_SECONDS * TicksPerSec)

\* jwt.decode succeeds (no JWTError): signature verifies and not exp < now
jwt_decode_ok(tok, t) ==
    /\ tok.sig = "ok"
    /\ ~(tok.exp < Sec(t))

-----------------------------------------------------------------------------
(* Outcomes of a call: a returned value or a raised exception *)

Returned(sub) ==
    [exc |-> "none", status |-> HTTP_200_OK, detail |-> "", inner |-> 0, sub |-> sub]

Raised(exc, status, detail) ==
    [exc |-> exc, status |-> status, detail |-> detail, inner |-> 0, sub |-> ""]

\* except Exception as e: raise HTTPException(500, detail=str(e))
\* inner keeps the status code of a wrapped HTTPException (0 for other errors)
Wrap500(o) ==
    IF o.exc = "none" THEN o
    ELSE [exc |-> "HTTPException", status |-> HTTP_500_INTERNAL_SERVER_ERROR,
          detail |-> o.detail,
          inner |-> IF o.exc = "HTTPException" THEN o.status ELSE 0,
          sub |-> ""]

\* what the HTTP client sees of an outcome: status and detail; an exception
\* that is not an HTTPException becomes the framework's plain 500
CallerView(o) ==
    IF o.exc \in {"none", "HTTPException"}
    THEN <<o.status, o.detail, o.inner>>
    ELSE <<HTTP_500_INTERNAL_SERVER_ERROR, "Internal Server Error", 0>>

-----------------------------------------------------------------------------
(* Auth: verification operations *)

\* variant: the scope claim is not compared
decode_refresh_token_any_scope(tok, t) ==
    IF ~jwt_decode_ok(tok, t)
    THEN Raised("HTTPException", HTTP_401_UNAUTHORIZED, "Could not validate credentials")
    ELSE IF tok.scope = "none"
    THEN Raised("KeyError", 0, "'scope'")
    ELSE Returned(tok.sub)

decode_refresh_token(tok, t) ==
    IF ~jwt_decode_ok(tok, t)
    THEN Raised("HTTPException", HTTP_401_UNAUTHORIZED, "Could not validate credentials")
    ELSE IF tok.scope = "none"
    THEN Raised("KeyError", 0, "'scope'")
    ELSE IF tok.scope = "refresh_token"
    THEN Returned(tok.sub)
    ELSE Raised("HTTPException", HTTP_401_UNAUTHORIZED, "Invalid scope for token")

get_email_from_token(tok, t) ==
    IF ~jwt_decode_ok(tok, t)
    THEN Raised("HTTPException", HTTP_422_UNPROCESSABLE_ENTITY,
                "Invalid token for email verification")
    ELSE Returned(tok.sub)

-----------------------------------------------------------------------------
(* Password hashing (passlib bcrypt): a digest carries its salt *)

NoHash == [plain |-> "", salt |-> 0]

BCRYPT_KEY_BYTES == 72

\* the bcrypt scheme keys the digest with the first 72 bytes of the secret
bcrypt_key(secret) ==
    IF Len(secret) > BCRYPT_KEY_BYTES THEN SubSeq(secret, 1, BCRYPT_KEY_BYTES) ELSE secret

\* pwd_context.hash: a fresh salt and the digest of the keyed secret under it
get_password_hash(password, salt) == [plain |-> bcrypt_key(password), salt |-> salt]

verify_password(plain_password, hashed_password) ==
    get_password_hash(plain_password, hashed_password.salt) = hashed_password

-----------------------------------------------------------------------------
(* User store (entity/models.py User, repository/users.py) *)

NoUser ==
    [exists |-> FALSE, password |-> NoHash, refresh_token |-> NoToken,
     confirmed |-> FALSE, role |-> "none"]

\* User(**body): refresh_token NULL, role default Role.user, confirmed default False
NewUser(hash) ==
    [exists |-> TRUE, password |-> hash, refresh_token |-> NoToken,
     confirmed |-> FALSE, role |-> "user"]

\* conftest.py init_models: the seeded account
SeedUser(salt) ==
    [exists |-> TRUE, password |-> get_password_hash("0123456", salt),
     refresh_token |-> NoToken, confirmed |-> TRUE, role |-> "admin"]

get_user_by_email(us, email) ==
    IF email \in DOMAIN us THEN us[email] ELSE NoUser

create_user(us, email, hash) == [us EXCEPT ![email] = NewUser(hash)]

\* repository create_user: the unique index on email refuses a second row
create_user_out(us, email) ==
    IF get_user_by_email(us, email).exists
    THEN Raised("HTTPException", HTTP_400_BAD_REQUEST, "Email already registered")
    ELSE Returned(email)

\* variant: the update is not restricted to the user's row
update_token_every_row(us, email, token) ==
    [e \in DOMAIN us |-> [us[e] EXCEPT !.refresh_token = token]]

\* user.refresh_token = token; db.commit()
update_token(us, email, token) == [us EXCEPT ![email].refresh_token = token]

confirm_email(us, email) == [us EXCEPT ![email].confirmed = TRUE]

\* repository confirm_email: the else branch for a missing row
confirm_email_out(us, email) ==
    IF get_user_by_email(us, email).exists
    THEN Returned(email)
    ELSE Raised("HTTPException", HTTP_404_NOT_FOUND, "User not found")

-----------------------------------------------------------------------------
(* Auth.get_current_user *)

credentials_exception ==
    Raised("HTTPException", HTTP_401_UNAUTHORIZED, "Could not validate credentials")

get_current_user(tok, t, us) ==
    IF "SECRET_KEY" \notin AuthAttrs
    THEN Raised("AttributeError", 0, "'Auth' object has no attribute 'SECRET_KEY'")
    ELSE IF ~jwt_decode_ok(tok, t)
    THEN credentials_exception
    ELSE IF tok.scope = "none"
    THEN Raised("KeyError", 0, "'scope'")
    ELSE IF tok.scope # "access_token"
    THEN credentials_exception
    ELSE IF ~get_user_by_email(us, tok.sub).exists
    THEN credentials_exception
    ELSE Returned(tok.sub)

-----------------------------------------------------------------------------
(* State *)

VARIABLES
    now,         \* the clock, in ticks
    advances,    \* clock advances so far
    calls,       \* requests started so far
    users,       \* the users table, by email
    pc,          \* position of each request slot's handler
    loc,         \* local variables of an in-flight refresh_token handler
    resp,        \* last completed response of each request slot
    issued,      \* tokens handed to clients (responses and confirmation mails)
    rotatedOut,  \* per email: refresh tokens replaced by a successful rotation
    vres,        \* last outcome of a verification operation called directly
    hres,        \* last outcome of a password operation called directly
    todos,       \* the todos table: a set of rows
    todo_seq,    \* the last primary key the todos table handed out
    tres         \* last outcome of a todos repository operation called directly

vars == <<now, advances, calls, users, pc, loc, resp, issued, rotatedOut, vres, hres, todos, todo_seq, tres>>

Req == {1, 2}

NoLoc == [token |-> NoToken, email |-> "", access |-> NoToken,
          refresh |-> NoToken, seq |-> 0, raced |-> FALSE, stale |-> FALSE]

\* what the store held for a principal when a request looked it up
NoSeen == [role |-> "none", confirmed |-> FALSE]

Seen(op, arg) ==
    IF op \in {"get_current_user", "get_all_todos"}
    THEN [role |-> get_user_by_email(users, arg.sub).role,
          confirmed |-> get_user_by_email(users, arg.sub).confirmed]
    ELSE NoSeen

NoResp == [op |-> "none", arg |-> NoToken, email |-> "", out |-> Returned(""),
           access |-> NoToken, refresh |-> NoToken, seq |-> 0, raced |-> FALSE,
           seen |-> NoSeen]

\* op and arg/email name the request, out is what the handler returned or
\* raised, access/refresh are the tokens of a TokenSchema body, seq is the
\* number of the request in arrival order, seen is the store's row of the
\* token's subject at the time of a session resolution
Response(op, arg, email, out, access, refresh) ==
    [op |-> op, arg |-> arg, email |-> email, out |-> out,
     access |-> access, refresh |-> refresh, seq |-> calls + 1, raced |-> FALSE,
     seen |-> Seen(op, arg)]

Message(status, msg) ==
    [exc |-> "none", status |-> status, detail |-> msg, inner |-> 0, sub |-> ""]

NoVres == [op |-> "none", arg |-> NoToken, at |-> 0, out |-> Returned("")]

\* out is the list a query returned; a single row or None is <<row>> or <<>>
NoTres == [op |-> "none", user |-> "", id |-> 0, out |-> <<>>]

NoHres == [op |-> "none", plain |-> "", of |-> "", hashed |-> NoHash, ok |-> FALSE]

\* clock steps: half a second, one second, and the spans around the lifetimes
Delays ==
    {1, TicksPerSec,
     (ACCESS_DEFAULT_SECONDS - 1) * TicksPerSec,
     ACCESS_DEFAULT_SECONDS * TicksPerSec,
     EMAIL_SECONDS * TicksPerSec,
     REFRESH_DEFAULT_SECONDS * TicksPerSec}

\* the store as the process finds it: the seeded account, and the second
\* address absent, registered, or registered and confirmed
Init ==
    /\ now = 0
    /\ advances = 0
    /\ calls = 0
    /\ \E s \in Salts :
         \E a \in {NoUser, NewUser(get_password_hash("other", s)),
                   [NewUser(get_password_hash("other", s)) EXCEPT !.confirmed = TRUE]} :
            users = [e \in Emails |-> IF e = "tester@example.com" THEN SeedUser(s) ELSE a]
    /\ pc = [r \in Req |-> "idle"]
    /\ loc = [r \in Req |-> NoLoc]
    /\ resp = [r \in Req |-> NoResp]
    /\ issued = {}
    /\ rotatedOut = [e \in Emails |-> {}]
    /\ vres = NoVres
    /\ hres = NoHres
    /\ todos = {}
    /\ todo_seq = 0
    /\ tres = NoTres

\* bearer strings a client can present
Presentable == issued \cup {Malformed}

\* a request is served in any slot that has no handler running
FreeSlot(r) == pc[r] = "idle"

Begin(r) ==
    /\ calls < MaxCalls
    /\ FreeSlot(r)
    /\ calls' = calls + 1

Advance(d) ==
    /\ advances < MaxAdvances
    /\ advances' = advances + 1
    /\ now' = now + d
    /\ UNCHANGED <<calls, users, pc, loc, resp, issued, rotatedOut, vres, hres, todos, todo_seq, tres>>

-----------------------------------------------------------------------------
(* routes/auth.py: signup *)

signup_out(us, email) ==
    IF get_user_by_email(us, email).exists
    THEN Wrap500(Raised("HTTPException", HTTP_409_CONFLICT, "Account already exists"))
    ELSE Message(201, "")

Signup(r, email, password, salt) ==
    /\ Begin(r)
    /\ LET out == signup_out(users, email)
           mail == create_email_token([sub |-> email, test |-> FALSE], now)
       IN /\ resp' = [resp EXCEPT ![r] = Response("signup", NoToken, email, out, NoToken, NoToken)]
          /\ IF out.exc = "none"
             THEN /\ users' = create_user(users, email, get_password_hash(password, salt))
                  /\ issued' = issued \cup {mail}
             ELSE UNCHANGED <<users, issued>>
    /\ UNCHANGED <<now, advances, pc, loc, rotatedOut, vres, hres, todos, todo_seq, tres>>

-----------------------------------------------------------------------------
(* routes/auth.py: login *)

login_out(us, email, password) ==
    LET user == get_user_by_email(us, email)
    IN IF ~user.exists
       THEN Wrap500(Raised("HTTPException", HTTP_401_UNAUTHORIZED, "Invalid email"))
       ELSE IF ~user.confirmed
       THEN Wrap500(Raised("HTTPException", HTTP_401_UNAUTHORIZED, "Email not confirmed"))
       ELSE IF ~verify_password(password, user.password)
       THEN Wrap500(Raised("HTTPException", HTTP_401_UNAUTHORIZED, "Invalid password"))
       ELSE Returned(email)

Login(r, email, password) ==
    /\ Begin(r)
    /\ LET out == login_out(users, email, password)
           access == create_access_token([sub |-> email, test |-> TRUE], NoDelta, now)
           refresh == create_refresh_token([sub |-> email, test |-> FALSE], NoDelta, now)
       IN IF out.exc = "none"
          THEN /\ users' = update_token(users, email, refresh)
               /\ issued' = issued \cup {access, refresh}
               /\ resp' = [resp EXCEPT ![r] = Response("login", NoToken, email, out, access, refresh)]
          ELSE /\ resp' = [resp EXCEPT ![r] = Response("login", NoToken, email, out, NoToken, NoToken)]
               /\ UNCHANGED <<users, issued>>
    /\ UNCHANGED <<now, advances, pc, loc, rotatedOut, vres, hres, todos, todo_seq, tres>>

-----------------------------------------------------------------------------
(* routes/auth.py: refresh_token, one step per database round trip *)

\* decode the token and load the user; the comparison with the stored
\* value is made on the row as it was read
refresh_check(us, tok, t) ==
    LET dec == decode_refresh_token(tok, t)
        user == get_user_by_email(us, dec.sub)
    IN IF dec.exc # "none"
       THEN [next |-> "idle", out |-> Wrap500(dec)]
       ELSE IF ~user.exists
       THEN [next |-> "idle",
             out |-> Wrap500(Raised("AttributeError", 0,
                        "'NoneType' object has no attribute 'refresh_token'"))]
       ELSE IF user.refresh_token # tok
       THEN [next |-> "clear", out |-> dec]
       ELSE [next |-> "issue", out |-> dec]

RefreshStart(r, tok) ==
    /\ Begin(r)
    /\ LET chk == refresh_check(users, tok, now)
           racing == {q \in Req \ {r} : pc[q] \in {"issue", "write"} /\ loc[q].token = tok}
       IN IF chk.next = "idle"
          THEN /\ resp' = [resp EXCEPT ![r] =
                              Response("refresh_token", tok, "", chk.out, NoToken, NoToken)]
               /\ UNCHANGED <<pc, loc>>
          ELSE /\ pc' = [pc EXCEPT ![r] = chk.next]
               /\ loc' = [q \in Req |->
                            IF q = r
                            THEN [token |-> tok, email |-> chk.out.sub,
                                  access |-> NoToken, refresh |-> NoToken,
                                  seq |-> calls + 1,
                                  raced |-> chk.next = "issue" /\ racing # {},
                                  stale |-> tok \in rotatedOut[chk.out.sub]]
                            ELSE IF chk.next = "issue" /\ q \in racing
                            THEN [loc[q] EXCEPT !.raced = TRUE]
                            ELSE loc[q]]
               /\ UNCHANGED resp
    /\ UNCHANGED <<now, advances, users, issued, rotatedOut, vres, hres, todos, todo_seq, tres>>

\* stored value differs: update_token(user, None), then raise 401 inside the try
RefreshClear(r) ==
    /\ pc[r] = "clear"
    /\ users' = update_token(users, loc[r].email, NoToken)
    /\ resp' = [resp EXCEPT ![r] =
                  [Response("refresh_token", loc[r].token, loc[r].email,
                            Wrap500(Raised("HTTPException", HTTP_401_UNAUTHORIZED,
                                           "Invalid refresh token")),
                            NoToken, NoToken)
                   EXCEPT !.seq = loc[r].seq]]
    /\ pc' = [pc EXCEPT ![r] = "idle"]
    /\ loc' = [loc EXCEPT ![r] = NoLoc]
    /\ UNCHANGED <<now, advances, calls, issued, rotatedOut, vres, hres, todos, todo_seq, tres>>

RefreshIssue(r) ==
    /\ pc[r] = "issue"
    /\ loc' = [loc EXCEPT
                 ![r].access = create_access_token([sub |-> loc[r].email, test |-> FALSE],
                                                   NoDelta, now),
                 ![r].refresh = create_refresh_token([sub |-> loc[r].email, test |-> FALSE],
                                                     NoDelta, now)]
    /\ pc' = [pc EXCEPT ![r] = "write"]
    /\ UNCHANGED <<now, advances, calls, users, resp, issued, rotatedOut, vres, hres, todos, todo_seq, tres>>

RefreshWrite(r) ==
    /\ pc[r] = "write"
    /\ users' = update_token(users, loc[r].email, loc[r].refresh)
    /\ resp' = [resp EXCEPT ![r] =
                  [Response("refresh_token", loc[r].token, loc[r].email,
                            Returned(loc[r].email), loc[r].access, loc[r].refresh)
                   EXCEPT !.seq = loc[r].seq, !.raced = loc[r].raced]]
    /\ issued' = issued \cup {loc[r].access, loc[r].refresh}
    /\ rotatedOut' = [rotatedOut EXCEPT ![loc[r].email] = @ \cup {loc[r].token}]
    /\ pc' = [pc EXCEPT ![r] = "idle"]
    /\ loc' = [loc EXCEPT ![r] = NoLoc]
    /\ UNCHANGED <<now, advances, calls, vres, hres, todos, todo_seq, tres>>

-----------------------------------------------------------------------------
(* routes/auth.py: confirmed_email *)

confirmed_email_out(us, tok, t) ==
    LET dec == get_email_from_token(tok, t)
        user == get_user_by_email(us, dec.sub)
    IN IF dec.exc # "none"
       THEN Wrap500(dec)
       ELSE IF ~user.exists
       THEN Wrap500(Raised("HTTPException", HTTP_400_BAD_REQUEST, "Verification error"))
       ELSE IF user.confirmed
       THEN Message(HTTP_200_OK, "Your email is already confirmed")
       ELSE IF "confirmed_email" \notin RepositoryUsersAttrs
       THEN Wrap500(Raised("AttributeError", 0,
                "module 'src.repository.users' has no attribute 'confirmed_email'"))
       ELSE Message(HTTP_200_OK, "Email confirmed")

ConfirmedEmail(r, tok) ==
    /\ Begin(r)
    /\ LET out == confirmed_email_out(users, tok, now)
       IN /\ resp' = [resp EXCEPT ![r] =
                        Response("confirmed_email", tok, tok.sub, out, NoToken, NoToken)]
          /\ users' = IF out.detail = "Email confirmed"
                      THEN confirm_email(users, tok.sub)
                      ELSE users
    /\ UNCHANGED <<now, advances, pc, loc, issued, rotatedOut, vres, hres, todos, todo_seq, tres>>

-----------------------------------------------------------------------------
(* routes/auth.py: request_email (POST /request_email) *)

request_email_out(us, email) ==
    LET user == get_user_by_email(us, email)
    IN IF ~user.exists
       THEN Wrap500(Raised("AttributeError", 0,
                "'NoneType' object has no attribute 'confirmed'"))
       ELSE IF user.confirmed
       THEN Message(HTTP_200_OK, "Your email is already confirmed")
       ELSE Message(HTTP_200_OK, "Check your email for confirmation.")

RequestEmail(r, email) ==
    /\ Begin(r)
    /\ LET out == request_email_out(users, email)
           mail == create_email_token([sub |-> email, test |-> FALSE], now)
       IN /\ resp' = [resp EXCEPT ![r] =
                        Response("request_email", NoToken, email, out, NoToken, NoToken)]
          /\ issued' = IF out.detail = "Check your email for confirmation."
                       THEN issued \cup {mail}
                       ELSE issued
    /\ UNCHANGED <<now, advances, users, pc, loc, rotatedOut, vres, hres, todos, todo_seq, tres>>

-----------------------------------------------------------------------------
(* Auth.get_current_user as the dependency of a protected route *)

GetCurrentUser(r, tok) ==
    /\ Begin(r)
    /\ resp' = [resp EXCEPT ![r] =
                  Response("get_current_user", tok, "", get_current_user(tok, now, users),
                           NoToken, NoToken)]
    /\ UNCHANGED <<now, advances, users, pc, loc, issued, rotatedOut, vres, hres, todos, todo_seq, tres>>

-----------------------------------------------------------------------------
(* The request-level specification *)

Next ==
    \/ \E d \in Delays : Advance(d)
    \/ \E r \in Req, e \in Emails, p \in Passwords, s \in Salts : Signup(r, e, p, s)
    \/ \E r \in Req, e \in Emails, p \in Passwords : Login(r, e, p)
    \/ \E r \in Req, tok \in Presentable : RefreshStart(r, tok)
    \/ \E r \in Req : RefreshClear(r)
    \/ \E r \in Req : RefreshIssue(r)
    \/ \E r \in Req : RefreshWrite(r)
    \/ \E r \in Req, tok \in Presentable : ConfirmedEmail(r, tok)
    \/ \E r \in Req, e \in Emails : RequestEmail(r, e)
    \/ \E r \in Req, tok \in Presentable : GetCurrentUser(r, tok)

Spec == Init /\ [][Next]_vars

-----------------------------------------------------------------------------
(* The token-service specification: one token is issued by one of the      *)
(* three create operations for any subject and lifetime, the clock moves,  *)
(* and the token, a tampered copy of it or a malformed bearer string is    *)
(* handed to the three verification operations.                            *)

\* explicit lifetimes a caller may pass, in seconds; NoDelta is the default
Deltas == {NoDelta, <<0>>, <<1>>, <<-1>>}

\* a subject with a principal and a subject without one
Subjects == {"alice@example.com", "nobody@example.com"}

TokPresentable == issued \cup {Tamper(tok) : tok \in issued} \cup {Malformed}

InitToken ==
    /\ Init
    /\ users["alice@example.com"].confirmed

TokIssue(tok) ==
    /\ issued = {}
    /\ issued' = {tok}
    /\ UNCHANGED <<now, advances, calls, users, pc, loc, resp, rotatedOut, vres, hres, todos, todo_seq, tres>>

IssueAccess(sub, delta) ==
    TokIssue(create_access_token([sub |-> sub, test |-> FALSE], delta, now))

IssueRefresh(sub, delta) ==
    TokIssue(create_refresh_token([sub |-> sub, test |-> FALSE], delta, now))

IssueEmail(sub) ==
    TokIssue(create_email_token([sub |-> sub, test |-> FALSE], now))

TokAdvance(d) ==
    /\ advances < MaxTokAdvances
    /\ advances' = advances + 1
    /\ now' = now + d
    /\ UNCHANGED <<calls, users, pc, loc, resp, issued, rotatedOut, vres, hres, todos, todo_seq, tres>>

\* at is the clock reading at which the verification ran
Verified(op, tok, out) ==
    /\ vres' = [op |-> op, arg |-> tok, at |-> now, out |-> out]
    /\ UNCHANGED <<now, advances, calls, users, pc, loc, resp, issued, rotatedOut, hres, todos, todo_seq, tres>>

VerifyAccess(tok) == Verified("get_current_user", tok, get_current_user(tok, now, users))

VerifyRefresh(tok) == Verified("decode_refresh_token", tok, decode_refresh_token(tok, now))

VerifyEmail(tok) == Verified("get_email_from_token", tok, get_email_from_token(tok, now))

NextToken ==
    \/ \E sub \in Subjects, delta \in Deltas : IssueAccess(sub, delta)
    \/ \E sub \in Subjects, delta \in Deltas : IssueRefresh(sub, delta)
    \/ \E sub \in Subjects : IssueEmail(sub)
    \/ \E d \in Delays : TokAdvance(d)
    \/ \E tok \in TokPresentable : VerifyAccess(tok)
    \/ \E tok \in TokPresentable : VerifyRefresh(tok)
    \/ \E tok \in TokPresentable : VerifyEmail(tok)

SpecToken == InitToken /\ [][NextToken]_vars

-----------------------------------------------------------------------------
(* services/roles.py RoleAccess and the route it guards (routes/todos.py) *)

\* RoleAccess(allowed_roles).__call__(request, user): None or a 403
role_access(allowed_roles, user) ==
    IF user.role \notin allowed_roles
    THEN Raised("HTTPException", HTTP_403_FORBIDDEN,
                "Access forbidden: User does not have required role")
    ELSE Returned("")

access_to_route_all == {"admin", "moderator"}

\* GET /todos/all: get_current_user is resolved once, as the dependency of
\* RoleAccess and of the handler; the handler runs only if both pass
get_all_todos_out(tok, t, us) ==
    LET cur == get_current_user(tok, t, us)
        gate == role_access(access_to_route_all, get_user_by_email(us, cur.sub))
    IN IF cur.exc # "none" THEN cur
       ELSE IF gate.exc # "none" THEN gate
       ELSE Message(HTTP_200_OK, "")

GetAllTodos(r, tok) ==
    /\ Begin(r)
    /\ resp' = [resp EXCEPT ![r] =
                  Response("get_all_todos", tok, "", get_all_todos_out(tok, now, users),
                           NoToken, NoToken)]
    /\ UNCHANGED <<now, advances, users, pc, loc, issued, rotatedOut, vres, hres, todos, todo_seq, tres>>

-----------------------------------------------------------------------------
(* The session specification: the users table is owned by the store, whose *)
(* administrator changes roles and confirmation flags between requests;    *)
(* one token is issued with its default lifetime for a subject with or     *)
(* without principal and presented to the routes that take a token; the    *)
(* rows that change are those of the subjects.                             *)

StoreSetRole(email, role) ==
    /\ users[email].exists
    /\ users[email].role # role
    /\ users' = [users EXCEPT ![email].role = role]
    /\ UNCHANGED <<now, advances, calls, pc, loc, resp, issued, rotatedOut, vres, hres, todos, todo_seq, tres>>

StoreSetConfirmed(email, flag) ==
    /\ users[email].exists
    /\ users[email].confirmed # flag
    /\ users' = [users EXCEPT ![email].confirmed = flag]
    /\ UNCHANGED <<now, advances, calls, pc, loc, resp, issued, rotatedOut, vres, hres, todos, todo_seq, tres>>

NextSession ==
    \/ \E sub \in Subjects : IssueAccess(sub, NoDelta)
    \/ \E sub \in Subjects : IssueRefresh(sub, NoDelta)
    \/ \E sub \in Subjects : IssueEmail(sub)
    \/ \E e \in Emails \cap Subjects, role \in Role \cup {"none"} : StoreSetRole(e, role)
    \/ \E e \in Emails \cap Subjects, flag \in BOOLEAN : StoreSetConfirmed(e, flag)
    \/ \E r \in Req, tok \in TokPresentable : GetCurrentUser(r, tok)
    \/ \E r \in Req, tok \in TokPresentable : GetAllTodos(r, tok)
    \/ \E r \in Req, tok \in TokPresentable : ConfirmedEmail(r, tok)

SpecSession == InitToken /\ [][NextSession]_vars

-----------------------------------------------------------------------------
(* The password specification: the two operations of the hasher called      *)
(* directly, on plaintexts on both sides of the length the scheme keys with *)

Pad8 == "aaaaaaaa"

Pad72 == Pad8 \o Pad8 \o Pad8 \o Pad8 \o Pad8 \o Pad8 \o Pad8 \o Pad8 \o Pad8

Plaintexts == {"", "0123456", "other", Pad72, Pad72 \o "x", Pad72 \o "y"}

HashSalts == {1, 2, 3}

\* get_password_hash(p): hres.of is the plaintext the digest was made of
HashPassword(p, salt) ==
    /\ hres' = [op |-> "get_password_hash", plain |-> p, of |-> p,
                hashed |-> get_password_hash(p, salt), ok |-> FALSE]
    /\ UNCHANGED <<now, advances, calls, users, pc, loc, resp, issued, rotatedOut, vres,
                   todos, todo_seq, tres>>

\* verify_password(p, digest) on the digest made last
VerifyPassword(p) ==
    /\ hres.op # "none"
    /\ hres' = [op |-> "verify_password", plain |-> p, of |-> hres.of,
                hashed |-> hres.hashed, ok |-> verify_password(p, hres.hashed)]
    /\ UNCHANGED <<now, advances, calls, users, pc, loc, resp, issued, rotatedOut, vres,
                   todos, todo_seq, tres>>

NextHash ==
    \/ \E p \in Plaintexts, salt \in HashSalts : HashPassword(p, salt)
    \/ \E p \in Plaintexts : VerifyPassword(p)

SpecHash == InitToken /\ [][NextHash]_vars

-----------------------------------------------------------------------------
(* repository/todos.py over the todos table (entity/models.py Todo) *)

\* Todo(**body, user=user) with the primary key the table hands out
todo_row(id, body, user) ==
    [id |-> id, user |-> user, title |-> body.title,
     description |-> body.description, completed |-> body.completed]

\* the rows of S in primary-key order, keys 1..n
RECURSIVE Ordered(_, _)
Ordered(S, n) ==
    IF n = 0 THEN <<>>
    ELSE Ordered(S, n - 1) \o
         (IF \E t \in S : t.id = n THEN <<CHOOSE t \in S : t.id = n>> ELSE <<>>)

\* .offset(offset).limit(limit)
Page(rows, limit, offset) ==
    SubSeq(rows, offset + 1, IF Len(rows) < offset + limit THEN Len(rows) ELSE offset + limit)

get_todos(rows, n, limit, offset, user) ==
    Page(Ordered({t \in rows : t.user = user}, n), limit, offset)

get_all_todos(rows, n, limit, offset) == Page(Ordered(rows, n), limit, offset)

\* variant: the row is selected by its id alone
get_todo_any_user(rows, todo_id, user) ==
    LET S == {t \in rows : t.id = todo_id}
    IN IF S = {} THEN <<>> ELSE <<CHOOSE t \in S : TRUE>>

\* select(Todo).filter_by(id=todo_id, user=user); scalar_one_or_none()
get_todo(rows, todo_id, user) ==
    LET S == {t \in rows : t.id = todo_id /\ t.user = user}
    IN IF S = {} THEN <<>> ELSE <<CHOOSE t \in S : TRUE>>

create_todo(rows, seq, body, user) == rows \cup {todo_row(seq + 1, body, user)}

update_todo(rows, todo_id, body, user) ==
    LET todo == get_todo(rows, todo_id, user)
    IN IF todo = <<>> THEN rows
       ELSE (rows \ {todo[1]}) \cup
            {[todo[1] EXCEPT !.title = body.title, !.description = body.description,
                             !.completed = body.completed]}

\* AsyncSession.delete is a coroutine function: the row is marked for
\* deletion when the coroutine runs, that is, when the call is awaited
session_delete(rows, todo, awaited) == IF awaited THEN rows \ {todo} ELSE rows

\* db.delete(todo) without await; await db.commit()
delete_todo(rows, todo_id, user) ==
    LET todo == get_todo(rows, todo_id, user)
    IN IF todo = <<>> THEN rows ELSE session_delete(rows, todo[1], FALSE)

-----------------------------------------------------------------------------
(* The todos specification: the repository operations called directly by    *)
(* two users                                                                 *)

TodoUsers == Emails

TodoIds == 1..MaxTodos

Bodies == [title : {"a", "b"}, description : {"d"}, completed : BOOLEAN]

Limits == {1, 10}

Offsets == {0, 1}

Tres(op, user, id, out) == [op |-> op, user |-> user, id |-> id, out |-> out]

TodoUnchanged ==
    UNCHANGED <<now, advances, calls, users, pc, loc, resp, issued, rotatedOut, vres, hres>>

TodoCreate(user, body) ==
    /\ todo_seq < MaxTodos
    /\ todos' = create_todo(todos, todo_seq, body, user)
    /\ todo_seq' = todo_seq + 1
    /\ tres' = Tres("create_todo", user, todo_seq + 1, <<todo_row(todo_seq + 1, body, user)>>)
    /\ TodoUnchanged

TodoUpdate(user, todo_id, body) ==
    /\ todos' = update_todo(todos, todo_id, body, user)
    /\ tres' = Tres("update_todo", user, todo_id, get_todo(todos', todo_id, user))
    /\ UNCHANGED todo_seq
    /\ TodoUnchanged

TodoDelete(user, todo_id) ==
    /\ todos' = delete_todo(todos, todo_id, user)
    /\ tres' = Tres("delete_todo", user, todo_id, get_todo(todos, todo_id, user))
    /\ UNCHANGED todo_seq
    /\ TodoUnchanged

TodoGet(user, todo_id) ==
    /\ tres' = Tres("get_todo", user, todo_id, get_todo(todos, todo_id, user))
    /\ UNCHANGED <<todos, todo_seq>>
    /\ TodoUnchanged

TodoList(user, limit, offset) ==
    /\ tres' = Tres("get_todos", user, 0, get_todos(todos, todo_seq, limit, offset, user))
    /\ UNCHANGED <<todos, todo_seq>>
    /\ TodoUnchanged

TodoListAll(limit, offset) ==
    /\ tres' = Tres("get_all_todos", "", 0, get_all_todos(todos, todo_seq, limit, offset))
    /\ UNCHANGED <<todos, todo_seq>>
    /\ TodoUnchanged

NextTodos ==
    \/ \E u \in TodoUsers, b \in Bodies : TodoCreate(u, b)
    \/ \E u \in TodoUsers, i \in TodoIds, b \in Bodies : TodoUpdate(u, i, b)
    \/ \E u \in TodoUsers, i \in TodoIds : TodoDelete(u, i)
    \/ \E u \in TodoUsers, i \in TodoIds : TodoGet(u, i)
    \/ \E u \in TodoUsers, l \in Limits, o \in Offsets : TodoList(u, l, o)
    \/ \E l \in Limits, o \in Offsets : TodoListAll(l, o)

SpecTodos == InitToken /\ [][NextTodos]_vars

-----------------------------------------------------------------------------
(* Properties of the request-level specification *)

\* a request that arrives in slot r in this step and is answered in it
Answered(r, op) ==
    /\ calls' = calls + 1
    /\ resp'[r] # resp[r]
    /\ resp'[r].op = op

\* a refresh_token request that arrives in slot r in this step with tok
RefreshArrives(r, tok) ==
    /\ calls' = calls + 1
    /\ pc[r] = "idle"
    /\ \/ Answered(r, "refresh_token") /\ resp'[r].arg = tok
       \/ pc'[r] # "idle" /\ loc'[r].token = tok

\* a refresh_token handler in slot r returns or raises in this step
RefreshEnds(r) == pc[r] # "idle" /\ pc'[r] = "idle"

\* tok carries a valid signature, the given scope and is not expired now
Live(tok, scope) == tok.sig = "ok" /\ tok.scope = scope /\ ~(tok.exp < Sec(now))

\* C1: once a successful rotation has replaced refresh token A, presenting A
\* again (still unexpired, whatever the clock readings of the issuances)
\* fails with 401 and leaves the principal's stored refresh token cleared
C1_RotationRevokesOld ==
    [][\A r \in Req :
          (RefreshEnds(r) /\ loc[r].stale)
              => /\ resp'[r].out.exc = "HTTPException"
                 /\ resp'[r].out.status = HTTP_401_UNAUTHORIZED
                 /\ users'[loc[r].email].refresh_token = NoToken]_vars

\* C2: of two refresh_token requests that ran concurrently with the same
\* refresh token, both having read it as the stored value, exactly one succeeds
C2_ExactlyOneWinner ==
    \A r1, r2 \in Req :
        (/\ r1 # r2
         /\ pc[r1] = "idle" /\ pc[r2] = "idle"
         /\ resp[r1].op = "refresh_token" /\ resp[r2].op = "refresh_token"
         /\ resp[r1].raced /\ resp[r2].raced
         /\ resp[r1].arg = resp[r2].arg)
            => (resp[r1].out.exc = "none") # (resp[r2].out.exc = "none")

\* C5: a refresh-scope token given to get_current_user never resolves to a
\* principal, and an access-scope token given to refresh_token is rejected
\* in the same step, issues no token and changes no stored refresh token
C5_AccessRefreshIsolation ==
    [][\A r \in Req :
          /\ (Answered(r, "get_current_user") /\ resp'[r].arg.scope = "refresh_token")
                => resp'[r].out.exc # "none"
          /\ \A tok \in Presentable :
                (RefreshArrives(r, tok) /\ tok.scope = "access_token")
                    => /\ pc'[r] = "idle"
                       /\ resp'[r].out.exc # "none"
                       /\ resp'[r].access = NoToken /\ resp'[r].refresh = NoToken
                       /\ issued' = issued
                       /\ users' = users]_vars

\* C5 witness: both cross uses have been answered, each with a live token
C5_Witness ==
    \E r1, r2 \in Req :
        /\ resp[r1].op = "get_current_user"
        /\ Live(resp[r1].arg, "refresh_token")
        /\ resp[r1].out.exc # "none"
        /\ resp[r2].op = "refresh_token"
        /\ Live(resp[r2].arg, "access_token")
        /\ resp[r2].out.exc # "none"

\* C7: a live refresh-scope token that differs from the principal's stored
\* value (NULL included) takes the mismatch branch, which clears the stored
\* value, issues no token and answers 401
C7_MismatchIs401 ==
    [][\A r \in Req :
          /\ \A tok \in Presentable :
                (/\ RefreshArrives(r, tok)
                 /\ Live(tok, "refresh_token")
                 /\ users[tok.sub].exists
                 /\ users[tok.sub].refresh_token # tok)
                    => pc'[r] = "clear"
          /\ (pc[r] = "clear" /\ RefreshEnds(r))
                => /\ users'[loc[r].email].refresh_token = NoToken
                   /\ issued' = issued
                   /\ resp'[r].access = NoToken /\ resp'[r].refresh = NoToken
                   /\ resp'[r].out.exc = "HTTPException"
                   /\ resp'[r].out.status = HTTP_401_UNAUTHORIZED]_vars

\* C8: a live refresh token equal to the principal's stored value is
\* accepted, and when the handler returns it returns an access and a refresh
\* token for that subject, the stored value is the returned refresh token,
\* and nothing else in the users table has changed
C8_RotationStoresReturned ==
    [][\A r \in Req :
          /\ \A tok \in Presentable :
                (/\ RefreshArrives(r, tok)
                 /\ Live(tok, "refresh_token")
                 /\ users[tok.sub].exists
                 /\ users[tok.sub].refresh_token = tok)
                    => pc'[r] = "issue" /\ loc'[r].email = tok.sub
          /\ (pc[r] = "write" /\ RefreshEnds(r))
                => /\ resp'[r].out = Returned(loc[r].email)
                   /\ resp'[r].access.scope = "access_token"
                   /\ resp'[r].access.sub = loc[r].email
                   /\ resp'[r].access.sig = "ok"
                   /\ resp'[r].refresh.scope = "refresh_token"
                   /\ resp'[r].refresh.sub = loc[r].email
                   /\ resp'[r].refresh.sig = "ok"
                   /\ users'[loc[r].email].refresh_token = resp'[r].refresh
                   /\ users' = [users EXCEPT ![loc[r].email].refresh_token =
                                                  resp'[r].refresh]]_vars

\* C8 witness: a rotation has returned a refresh token that differs from the
\* presented one and is the stored value
C8_Witness ==
    \E r \in Req :
        /\ resp[r].op = "refresh_token"
        /\ resp[r].out.exc = "none"
        /\ resp[r].refresh # resp[r].arg
        /\ users[resp[r].email].refresh_token = resp[r].refresh

\* C4: confirmed_email rejects a live access or refresh token and leaves the
\* users table, the confirmation flag included, as it was
C4_EmailScopeIsolation ==
    [][\A r \in Req :
          (/\ Answered(r, "confirmed_email")
           /\ \/ Live(resp'[r].arg, "access_token")
              \/ Live(resp'[r].arg, "refresh_token"))
              => /\ resp'[r].out.exc # "none"
                 /\ users' = users]_vars

\* C6: confirmed_email with a live email-confirmation token of an existing
\* principal succeeds, whether the principal was confirmed before or not,
\* leaves the flag true and changes no other field
C6_ConfirmIdempotent ==
    [][\A r \in Req :
          (/\ Answered(r, "confirmed_email")
           /\ Live(resp'[r].arg, "none")
           /\ users[resp'[r].arg.sub].exists)
              => /\ resp'[r].out.exc = "none"
                 /\ users'[resp'[r].arg.sub].confirmed
                 /\ users' = [users EXCEPT ![resp'[r].arg.sub].confirmed = TRUE]]_vars

-----------------------------------------------------------------------------
(* Properties of the token-service specification *)

\* the scope claim written by the create operation that pairs with op
ScopeOf(op) ==
    CASE op = "get_current_user" -> "access_token"
      [] op = "decode_refresh_token" -> "refresh_token"
      [] OTHER -> "none"

\* the last verification was given the issued token itself
OwnToken == vres.op # "none" /\ vres.arg \in issued

\* C3: a token issued for a scope and presented no later than its expiry to
\* the verification operation of that scope is accepted and yields its
\* subject (for get_current_user: a subject that has a principal)
C3_IssueVerifyRoundTrip ==
    (/\ OwnToken
     /\ vres.arg.scope = ScopeOf(vres.op)
     /\ vres.at <= vres.arg.exp * TicksPerSec
     /\ vres.op = "get_current_user" => get_user_by_email(users, vres.arg.sub).exists)
        => vres.out = Returned(vres.arg.sub)

\* C9: no verification operation accepts a token at a time later than its
\* exp; an access token of alice@example.com with the default lifetime is
\* accepted with its subject 14min59s after issue and rejected 15min1s after
C9_Expiry ==
    /\ (OwnToken /\ vres.at > vres.arg.exp * TicksPerSec) => vres.out.exc # "none"
    /\ (/\ OwnToken
        /\ vres.op = "get_current_user"
        /\ vres.arg.scope = "access_token"
        /\ vres.arg.sub = "alice@example.com"
        /\ vres.arg.exp = vres.arg.iat + ACCESS_DEFAULT_SECONDS)
           => /\ Sec(vres.at - (ACCESS_DEFAULT_SECONDS - 1) * TicksPerSec) = vres.arg.iat
                    => vres.out = Returned("alice@example.com")
              /\ Sec(vres.at - (ACCESS_DEFAULT_SECONDS + 1) * TicksPerSec) = vres.arg.iat
                    => vres.out.exc # "none"

\* the token is one that op must refuse: bad signature or malformed,
\* expired, or a scope claim other than the one op expects (absent included)
Refusable(op, tok, at) ==
    \/ tok.sig # "ok"
    \/ tok.exp < Sec(at)
    \/ tok.scope # ScopeOf(op)

\* C10: every refusal of a verification operation looks the same to the
\* caller: 401 with detail 'Could not validate credentials'
C10_UniformRefusal ==
    (vres.op # "none" /\ Refusable(vres.op, vres.arg, vres.at))
        => CallerView(vres.out) =
              <<HTTP_401_UNAUTHORIZED, "Could not validate credentials", 0>>

\* the token is a live access token at the time of the verification and
\* its subject is the email of a principal
Resolvable(tok, at) ==
    /\ tok.sig = "ok"
    /\ tok.scope = "access_token"
    /\ ~(tok.exp < Sec(at))
    /\ get_user_by_email(users, tok.sub).exists

\* C11: get_current_user answers 401 'Could not validate credentials' both
\* for a token that fails verification and for a subject without principal,
\* and returns a principal only for a live access token of an existing
\* principal, namely the one its subject names
C11_ResolveCurrentUser ==
    vres.op = "get_current_user"
        => /\ ~Resolvable(vres.arg, vres.at)
                => CallerView(vres.out) =
                      <<HTTP_401_UNAUTHORIZED, "Could not validate credentials", 0>>
           /\ vres.out.exc = "none"
                => Resolvable(vres.arg, vres.at) /\ vres.out.sub = vres.arg.sub

-----------------------------------------------------------------------------
(* Properties of the session specification *)

Forbidden ==
    Raised("HTTPException", HTTP_403_FORBIDDEN,
           "Access forbidden: User does not have required role")

\* C12: for every principal and every role set the check raises 403 exactly
\* when the principal's role (absent included) is not in the set; a request
\* to GET /todos/all with a live access token of a principal is answered 403
\* when the role is outside {admin, moderator} and is admitted to the handler
\* otherwise, and changes nothing
C12_RoleGate ==
    [][/\ \A e \in Emails, allowed \in SUBSET Role :
             users[e].exists
                => /\ users[e].role \notin allowed => role_access(allowed, users[e]) = Forbidden
                   /\ users[e].role \in allowed => role_access(allowed, users[e]).exc = "none"
       /\ \A r \in Req :
             (/\ Answered(r, "get_all_todos")
              /\ Live(resp'[r].arg, "access_token")
              /\ get_user_by_email(users, resp'[r].arg.sub).exists)
                 => /\ users[resp'[r].arg.sub].role \notin access_to_route_all
                          => resp'[r].out = Forbidden
                    /\ users[resp'[r].arg.sub].role \in access_to_route_all
                          => resp'[r].out.exc = "none"
                    /\ users' = users /\ issued' = issued]_vars

-----------------------------------------------------------------------------
(* Properties of the token-service specification: issuance *)

\* the token was issued in this step by create, called at the current clock
IssuedNow(tok) == issued = {} /\ issued' = {tok}

\* C13: an access or refresh token issued with an explicit lifetime of L
\* seconds has exp = iat + L for every L supplied; without one, an access
\* token has exp = iat + 15 minutes and a refresh token exp = iat + 7 days;
\* an email token has exp = iat + 1 day
C13_Lifetimes ==
    [][\A sub \in Subjects :
          LET data == [sub |-> sub, test |-> FALSE]
              access(delta) == create_access_token(data, delta, now)
              refresh(delta) == create_refresh_token(data, delta, now)
              email == create_email_token(data, now)
          IN /\ \A delta \in Deltas \ {NoDelta} :
                   /\ IssuedNow(access(delta)) => access(delta).exp = Sec(now) + delta[1]
                   /\ IssuedNow(refresh(delta)) => refresh(delta).exp = Sec(now) + delta[1]
             /\ IssuedNow(access(NoDelta))
                   => access(NoDelta).exp = Sec(now) + ACCESS_DEFAULT_SECONDS
             /\ IssuedNow(refresh(NoDelta))
                   => refresh(NoDelta).exp = Sec(now) + REFRESH_DEFAULT_SECONDS
             /\ IssuedNow(email) => email.exp = Sec(now) + EMAIL_SECONDS]_vars

\* C18: every issued token has iat <= exp, whatever lifetime was passed
C18_IssuedBeforeExpiry ==
    \A tok \in issued : tok.iat <= tok.exp

-----------------------------------------------------------------------------
(* Properties of the request-level specification: login, signup, mails *)

\* the credentials do not admit a login: unknown email, unconfirmed
\* principal or a password that does not verify
BadCredentials(email, password) ==
    LET user == get_user_by_email(users, email)
    IN \/ ~user.exists
       \/ ~user.confirmed
       \/ ~verify_password(password, user.password)

\* C14: a login for an unknown email, an unconfirmed principal or a wrong
\* password is answered with HTTP 401, and a refused login returns no token
\* and leaves the users table and the set of issued tokens as they were
C14_LoginFailsClean ==
    [][\A r \in Req :
          (/\ Answered(r, "login")
           /\ \E p \in Passwords :
                 /\ BadCredentials(resp'[r].email, p)
                 /\ resp'[r].out = login_out(users, resp'[r].email, p))
              => /\ resp'[r].out.exc = "HTTPException"
                 /\ resp'[r].out.status = HTTP_401_UNAUTHORIZED
                 /\ resp'[r].access = NoToken /\ resp'[r].refresh = NoToken
                 /\ users' = users
                 /\ issued' = issued]_vars

\* C15: a signup with an email that already has a principal is answered with
\* the 409 conflict error, not a generic 500, and leaves the users table as
\* it was; create_user itself answers a uniqueness violation with HTTP 400
C15_SignupConflict ==
    [][/\ \A e \in Emails :
             users[e].exists
                => /\ create_user_out(users, e).exc = "HTTPException"
                   /\ create_user_out(users, e).status = HTTP_400_BAD_REQUEST
       /\ \A r \in Req :
             (Answered(r, "signup") /\ users[resp'[r].email].exists)
                => /\ resp'[r].out.exc = "HTTPException"
                   /\ resp'[r].out.status = HTTP_409_CONFLICT
                   /\ users' = users
                   /\ issued' = issued]_vars

\* C19: request_email for an address without principal is answered by a
\* NotFound guard (404), mails nothing and changes nothing; for a confirmed
\* principal nothing is mailed; for an unconfirmed principal exactly the one
\* confirmation token is mailed
C19_RequestEmailGuard ==
    [][\A r \in Req :
          Answered(r, "request_email")
             => LET user == get_user_by_email(users, resp'[r].email)
                    mail == create_email_token([sub |-> resp'[r].email, test |-> FALSE], now)
                IN /\ users' = users
                   /\ ~user.exists
                         => /\ resp'[r].out.exc = "HTTPException"
                            /\ resp'[r].out.status = HTTP_404_NOT_FOUND
                            /\ issued' = issued
                   /\ (user.exists /\ user.confirmed)
                         => resp'[r].out.exc = "none" /\ issued' = issued
                   /\ (user.exists /\ ~user.confirmed)
                         => resp'[r].out.exc = "none" /\ issued' = issued \cup {mail}]_vars

-----------------------------------------------------------------------------
(* Properties of the session specification: confirmation of an unknown subject *)

\* tok came from create_email_token (it carries no scope) and decodes at `at`
NoPrincipal(tok, at) ==
    /\ tok.scope = "none"
    /\ get_email_from_token(tok, at).exc = "none"
    /\ ~get_user_by_email(users, tok.sub).exists

\* C16: confirmed_email with a valid email-confirmation token whose subject
\* has no principal is answered with a NotFound-class error (HTTP 404) and
\* leaves the users table as it was; repository confirm_email for an email
\* without a row raises HTTP 404.
C16_ConfirmUnknownIsNotFound ==
    [][\A r \in Req :
         (Answered(r, "confirmed_email") /\ NoPrincipal(resp'[r].arg, now))
         => /\ resp'[r].out.exc = "HTTPException"
            /\ resp'[r].out.status = HTTP_404_NOT_FOUND
            /\ confirm_email_out(users, resp'[r].arg.sub).status = HTTP_404_NOT_FOUND
            /\ users' = users]_vars

-----------------------------------------------------------------------------
(* Properties of the session specification: freshness *)

SessionOps == {"get_current_user", "get_all_todos"}

\* slot q holds an earlier session resolution of the token that slot r
\* presents in this step, and the store's row of the subject has a different
\* role or confirmation flag now
ChangedSince(q, r) ==
    /\ q # r
    /\ resp[q].op \in SessionOps
    /\ resp[q].arg = resp'[r].arg
    /\ resp[q].seen # resp'[r].seen

\* C20: when a principal's role or confirmation flag is changed in the store
\* between two requests that carry the same still-valid access token, the
\* second request resolves to the principal as the store holds it now:
\* get_current_user returns it, and GET /todos/all is refused with 403 or
\* admitted according to the new role
C20_NoCaching ==
    [][\A r \in Req, q \in Req :
         (/\ \E op \in SessionOps : Answered(r, op)
          /\ Resolvable(resp'[r].arg, now)
          /\ ChangedSince(q, r))
            => /\ resp'[r].op = "get_current_user"
                    => resp'[r].out = Returned(resp'[r].arg.sub)
               /\ resp'[r].op = "get_all_todos"
                    => resp'[r].out =
                          IF users[resp'[r].arg.sub].role \in access_to_route_all
                          THEN Message(HTTP_200_OK, "")
                          ELSE Forbidden]_vars

-----------------------------------------------------------------------------
(* Properties of the password specification *)

\* C17: verify_password(p, get_password_hash(p)) is true for every plaintext
\* p, verify_password(p1, get_password_hash(p2)) is false for every pair
\* p1 # p2, and neither operation changes the users table or the tokens
C17_HashRoundTrip ==
    [][hres' # hres
         => /\ hres'.op = "verify_password"
                 => (hres'.ok <=> hres'.plain = hres'.of)
            /\ users' = users /\ issued' = issued]_vars

-----------------------------------------------------------------------------
(* Properties of the todos specification *)

\* the step is a call of op
TodoCalled(op) == tres' # tres /\ tres'.op = op

\* the ids of the rows a query returns
IdsOf(out) == {out[i].id : i \in DOMAIN out}

\* C21: delete_todo called by the owner of an existing todo returns that
\* todo and removes it from the table, so that get_todo, get_todos and
\* get_all_todos return no todo with that id afterwards; when the caller
\* owns no todo with that id it returns None and the table is unchanged
C21_DeleteRemoves ==
    [][TodoCalled("delete_todo")
         => LET owned == get_todo(todos, tres'.id, tres'.user)
            IN /\ owned # <<>>
                    => /\ tres'.out = owned
                       /\ \A u \in TodoUsers, l \in Limits, o \in Offsets :
                             /\ get_todo(todos', tres'.id, u) = <<>>
                             /\ tres'.id \notin IdsOf(get_todos(todos', todo_seq', l, o, u))
                             /\ tres'.id \notin IdsOf(get_all_todos(todos', todo_seq', l, o))
               /\ owned = <<>>
                    => tres'.out = <<>> /\ todos' = todos]_vars

\* the todo with this id exists and belongs to someone else than user
OthersTodo(todo_id, user) == \E t \in todos : t.id = todo_id /\ t.user # user

\* C22: get_todos and get_todo called by a user return only todos that user
\* owns, create_todo adds one todo owned by the caller, and update_todo or
\* delete_todo called with the id of another user's todo returns None and
\* leaves the table as it was
C22_OwnershipIsolation ==
    [][/\ (TodoCalled("get_todos") \/ TodoCalled("get_todo"))
            => \A i \in DOMAIN tres'.out :
                  tres'.out[i].user = tres'.user /\ tres'.out[i] \in todos
       /\ TodoCalled("create_todo")
            => /\ tres'.out[1].user = tres'.user
               /\ todos' = todos \cup {tres'.out[1]}
               /\ tres'.out[1] \notin todos
       /\ ((TodoCalled("update_todo") \/ TodoCalled("delete_todo"))
             /\ OthersTodo(tres'.id, tres'.user))
            => tres'.out = <<>> /\ todos' = todos]_vars

\* both users own a todo and one of them has just called update_todo or
\* delete_todo with the id of the other's
C22_Witness ==
    /\ \A u \in TodoUsers : \E t \in todos : t.user = u
    /\ tres.op \in {"update_todo", "delete_todo"}
    /\ OthersTodo(tres.id, tres.user)
    /\ tres.out = <<>>

-----------------------------------------------------------------------------
(* Properties of the request-level specification: the session a login opens *)

GoodCredentials(email, password) ==
    /\ users[email].exists
    /\ users[email].confirmed
    /\ verify_password(password, users[email].password)

\* C23: for an existing confirmed principal and the correct password login
\* succeeds; a successful login returns an access and a refresh token whose
\* subject is the principal's email and leaves exactly the returned refresh
\* token as the stored value, so that a refresh_token request arriving next
\* with that token passes the comparison with the stored value, and a
\* handler that has passed it issues, writes and returns new tokens
C23_LoginOpensSession ==
    [][/\ \A e \in Emails, p \in Passwords :
             GoodCredentials(e, p) => login_out(users, e, p) = Returned(e)
       /\ \A r \in Req :
             /\ (Answered(r, "login") /\ resp'[r].out.exc = "none")
                   => /\ \E p \in Passwords : GoodCredentials(resp'[r].email, p)
                      /\ resp'[r].access.scope = "access_token"
                      /\ resp'[r].access.sub = resp'[r].email
                      /\ resp'[r].access.sig = "ok"
                      /\ resp'[r].refresh.scope = "refresh_token"
                      /\ resp'[r].refresh.sub = resp'[r].email
                      /\ resp'[r].refresh.sig = "ok"
                      /\ users' = [users EXCEPT ![resp'[r].email].refresh_token =
                                                     resp'[r].refresh]
                      /\ refresh_check(users', resp'[r].refresh, now') =
                            [next |-> "issue", out |-> Returned(resp'[r].email)]
             /\ (pc[r] = "issue" /\ pc'[r] # "issue") => pc'[r] = "write"
             /\ (pc[r] = "write" /\ pc'[r] # "write")
                   => /\ resp'[r].out = Returned(loc[r].email)
                      /\ resp'[r].arg = loc[r].token
                      /\ resp'[r].refresh.sub = loc[r].email]_vars

\* C23 witness: a login has succeeded and the request that arrived next
\* presented the refresh token it returned and was answered with new tokens
C23_Witness ==
    \E q \in Req, r \in Req :
        /\ resp[q].op = "login"
        /\ resp[q].out.exc = "none"
        /\ resp[r].op = "refresh_token"
        /\ resp[r].seq = resp[q].seq + 1
        /\ resp[r].arg = resp[q].refresh
        /\ resp[r].out = Returned(resp[q].email)
        /\ resp[r].refresh.scope = "refresh_token"

-----------------------------------------------------------------------------
(* Properties of the request-level specification: the stored refresh token *)

\* every stored value is null or a refresh token of the row's own email that
\* a login or a rotation has returned
StoredOk ==
    \A e \in Emails :
        \/ users[e].refresh_token = NoToken
        \/ /\ users[e].exists
           /\ users[e].refresh_token.scope = "refresh_token"
           /\ users[e].refresh_token.sub = e
           /\ users[e].refresh_token.sig = "ok"
           /\ users[e].refresh_token \in issued

\* the step is a login for e being answered, or a refresh_token handler for
\* e writing the users table
LoginOrRotation(e) ==
    \E r \in Req :
        \/ Answered(r, "login") /\ resp'[r].email = e /\ resp'[r].out.exc = "none"
        \/ pc[r] \in {"clear", "write"} /\ pc'[r] = "idle" /\ loc[r].email = e

\* C24: in every reachable state each principal's stored refresh token is
\* null or a refresh-scope token whose subject is the principal's own email
\* and that login or refresh_token returned to a caller, and only login and
\* refresh_token change a stored value
C24_StoredRefreshToken ==
    [][/\ StoredOk
       /\ StoredOk'
       /\ \A e \in Emails :
             users'[e].refresh_token # users[e].refresh_token => LoginOrRotation(e)]_vars

\* C24 witness: both principals hold a stored refresh token at once
C24_Witness ==
    \A e \in Emails : users[e].exists /\ users[e].refresh_token # NoToken

====
